---- MODULE Spec2Model ----
(***************************************************************************)
(* The RSyslog client of src/src/index.ts: send() formats a frame and      *)
(* queues it, a setImmediate-driven drain loop (sendNextMessage) takes one *)
(* frame per step, acquires the UDP or TCP socket lazily and hands the     *)
(* frame to it; close and error events of the sockets come back through    *)
(* socketClose and socketError.  Every callback that Node runs to          *)
(* completion (a setImmediate callback with the promise continuations it   *)
(* makes runnable, a socket event) is one action.                          *)
(***************************************************************************)
EXTENDS Integers, Sequences, FiniteSets, TLC

\* ---------------------------------------------------------------- bounds
\* Number of send() calls that Spec lets succeed.
MaxSends == 2
\* Number of send() calls that SpecMarked lets succeed.
MaxMarkedSends == 3
\* Number of send() calls that SpecFormat lets succeed.
MaxFormatSends == 2
\* Number of send() calls that SpecHeader lets succeed.
MaxHeaderSends == 1
\* Number of send() calls that SpecTimestamp lets succeed.
MaxTimestampSends == 1
\* Number of 'error' events the model lets the client emit.
MaxErrors == 1

\* ------------------------------------------------------ program constants
NILVALUE == "-"
DELIMITER == " "
BOM == "EFBBBF"
NEWLINE == "\n"
SeverityMin == 0
SeverityMax == 7
MaxUdpLength == 1024
DefaultPort == 514
DefaultFacility == 16

\* No socket: the value of this.udpSocket / this.tpcSocket when undefined.
NoSocket == 0
\* A socket is created only by a drain step that took a frame off the queue, so
\* there are never more sockets than send() calls that succeeded.
MaxSockets == IF MaxMarkedSends > MaxSends THEN MaxMarkedSends ELSE MaxSends
SocketIds == 1..MaxSockets

VARIABLES
    options,      \* this.options (immutable after construction)
    listeners,    \* number of listeners subscribed to 'error'
    udpSocket,    \* this.udpSocket: a socket id or NoSocket
    tpcSocket,    \* this.tpcSocket: a socket id or NoSocket
    pending,      \* this.pending: sequence of frames
    running,      \* this.running
    immediates,   \* setImmediate(() => this.sendNextMessage()) callbacks not yet run
    sockets,      \* state of every socket object created so far
    suspended,    \* per connecting TCP socket: the frame of the drain step awaiting its 'connect'
    wire,         \* history: the socket.write / socket.send calls made, in order
    inflight,     \* write/send calls whose completion callback has not run yet
    emitted,      \* number of 'error' events delivered to a listener
    crashed,      \* an exception escaped a callback: the process is gone
    accepted,     \* history: frames queued by send(), in call order
    now,          \* Date.now()
    errorMark,    \* history: the last error a listener received (kept by SpecMarked only)
    lastOp        \* history: the callback or API call that ran last

vars == <<options, listeners, udpSocket, tpcSocket, pending, running, immediates,
          sockets, suspended, wire, inflight, emitted, crashed, accepted, now,
          errorMark, lastOp>>

\* ------------------------------------------------------------ formatting
RECURSIVE BitOr(_, _)
\* a | b on non-negative integers
BitOr(a, b) ==
    IF a = 0 THEN b
    ELSE IF b = 0 THEN a
    ELSE (IF (a % 2 = 1) \/ (b % 2 = 1) THEN 1 ELSE 0) + 2 * BitOr(a \div 2, b \div 2)

\* a shift by two bits instead of three
ShiftLeft2(a) == a * 4

\* facility << 3; a facility is one of 0..23, far from the 32-bit limit of <<
ShiftLeft3(a) == a * 8

\* A message string is a run of one-byte (ASCII) characters and a run of
\* characters that take one UTF-16 code unit and two UTF-8 bytes.
\* message.length
StrLength(message) == message.ascii + message.wide
\* Buffer.from(message, 'utf8').byteLength
Utf8Length(message) == message.ascii + 2 * message.wide

\* new Date(ms).toISOString()
ToISOString(ms) == [ms |-> ms, zone |-> "Z"]

\* options?.timestamp || Date.now()   (an absent option is <<>>, a given one <<t>>)
TimestampOf(sendOptions, nowMs) ==
    IF sendOptions.timestamp # <<>> /\ sendOptions.timestamp[1] # 0
    THEN sendOptions.timestamp[1]
    ELSE nowMs

\* options?.msgid || NILVALUE
MsgIdOf(sendOptions) ==
    IF sendOptions.msgid # <<>> /\ sendOptions.msgid[1] # ""
    THEN sendOptions.msgid[1]
    ELSE NILVALUE

\* the severity test with an upper limit that is off by one
SeverityRejectedOffByOne(severity) == severity < SeverityMin \/ severity > SeverityMax + 1

\* the severity test of send()
SeverityRejected(severity) == severity < SeverityMin \/ severity > SeverityMax

\* the length test of send()
LengthRejected(opts, message) ==
    StrLength(message) < 1 \/ (opts.method = "UDP" /\ StrLength(message) > MaxUdpLength)

\* the buffer send() builds
Frame(opts, severity, message, sendOptions, nowMs) ==
    [ header |-> [ priority |-> BitOr(ShiftLeft3(opts.facility), severity),
                   version |-> 1,
                   timeStr |-> ToISOString(TimestampOf(sendOptions, nowMs)),
                   hostname |-> opts.hostname,
                   appname |-> opts.appname,
                   procid |-> opts.procid,
                   msgid |-> MsgIdOf(sendOptions) ],
      sep1 |-> DELIMITER,
      structured |-> NILVALUE,
      sep2 |-> DELIMITER,
      bom |-> IF opts.bom THEN <<BOM>> ELSE <<>>,
      body |-> [text |-> message, bytes |-> Utf8Length(message)] ]

\* the payload without the newline that ends a TCP frame
PayloadBare(method, buf) == [buf |-> buf, tail |-> <<>>]

\* what sendNextMessage passes to socket.write (TCP) or socket.send (UDP)
Payload(method, buf) ==
    IF method = "TCP" THEN [buf |-> buf, tail |-> <<NEWLINE>>]
    ELSE [buf |-> buf, tail |-> <<>>]

\* -------------------------------------------------------------- the state
defaultRSyslogOptions ==
    [ host |-> "127.0.0.1", port |-> DefaultPort, method |-> "UDP", appname |-> NILVALUE,
      facility |-> DefaultFacility, hostname |-> "host", procid |-> 1, bom |-> FALSE ]

Methods == {"TCP", "UDP"}

Init ==
    /\ options \in {[defaultRSyslogOptions EXCEPT !.method = m] : m \in Methods}
    /\ listeners = 0
    /\ udpSocket = NoSocket
    /\ tpcSocket = NoSocket
    /\ pending = <<>>
    /\ running = FALSE
    /\ immediates = 0
    /\ sockets = [h \in SocketIds |-> "unused"]
    /\ suspended = [h \in SocketIds |-> <<>>]
    /\ wire = <<>>
    /\ inflight = 0
    /\ emitted = 0
    /\ crashed = FALSE
    /\ accepted = <<>>
    /\ now = 1
    /\ errorMark = [now |-> 0, created |-> 0, socket |-> NoSocket, sent |-> 0]
    /\ lastOp = "constructor"

\* sockets created so far; ids are handed out in creation order
Created == Cardinality({h \in SocketIds : sockets[h] # "unused"})
NewSocket == Created + 1

\* a socket that is connecting or open
Live(h) == sockets[h] \in {"connecting", "open"}

\* ---------------------------------------------------------- drain control
\* stop(): clears running
StopEffect(run, imm) == [running |-> FALSE, immediates |-> imm]

\* continue() that schedules a callback although nothing is pending
ContinueEffectAlwaysSchedules(pend, run, imm) == [running |-> run, immediates |-> imm + 1]

\* continue() that stops the loop although frames are pending
ContinueEffectNoReschedule(pend, run, imm) == StopEffect(run, imm)

\* continue(): schedules sendNextMessage when frames are pending, else stop()
ContinueEffect(pend, run, imm) ==
    IF Len(pend) > 0 THEN [running |-> run, immediates |-> imm + 1]
    ELSE StopEffect(run, imm)

\* start() without the test of running
StartEffectUnguarded(pend, run, imm) == ContinueEffect(pend, TRUE, imm)

\* start(): sets running and calls continue(), unless already running
StartEffect(pend, run, imm) ==
    IF ~run THEN ContinueEffect(pend, TRUE, imm)
    ELSE [running |-> run, immediates |-> imm]

\* unshift in place of push: the new frame goes to the front
QueueAfterPushFront(pend, buf) == <<buf>> \o pend

\* queueMessage(buf): the queue after the push
QueueAfterPush(pend, buf) == Append(pend, buf)

\* this.pending.shift(): the queue after the shift
QueueAfterShift(pend) == Tail(pend)

\* ------------------------------------------------------------- the sockets
\* socketClose() that leaves the cached handles as they are
SocketCloseEffectKeeps(tpc, udp) == [tpcSocket |-> tpc, udpSocket |-> udp]

\* socketClose(): both cached handles are cleared
SocketCloseEffect(tpc, udp) == [tpcSocket |-> NoSocket, udpSocket |-> NoSocket]

\* disconnect() that tears the handle down and forgets to clear it
DisconnectEffectKeepsHandle(opts, tpc, udp, socks) ==
    IF opts.method = "TCP" /\ tpc # NoSocket
    THEN [tpcSocket |-> tpc, udpSocket |-> udp, throws |-> FALSE,
          sockets |-> [socks EXCEPT ![tpc] = IF @ \in {"connecting", "open"} THEN "closing" ELSE @]]
    ELSE IF opts.method = "UDP" /\ udp # NoSocket
    THEN IF socks[udp] = "open"
         THEN [tpcSocket |-> tpc, udpSocket |-> udp, throws |-> FALSE,
               sockets |-> [socks EXCEPT ![udp] = "closing"]]
         ELSE [tpcSocket |-> tpc, udpSocket |-> udp, throws |-> TRUE, sockets |-> socks]
    ELSE [tpcSocket |-> tpc, udpSocket |-> udp, throws |-> FALSE, sockets |-> socks]

\* disconnect() that tests the method alone and calls destroy() / close() on an
\* undefined handle
DisconnectEffectNoHandleTest(opts, tpc, udp, socks) ==
    LET h == IF opts.method = "TCP" THEN tpc ELSE udp
    IN  IF h = NoSocket
        THEN [tpcSocket |-> tpc, udpSocket |-> udp, throws |-> TRUE, sockets |-> socks]
        ELSE [tpcSocket |-> NoSocket, udpSocket |-> NoSocket, throws |-> FALSE,
              sockets |-> [socks EXCEPT ![h] = IF @ \in {"connecting", "open"} THEN "closing" ELSE @]]

\* disconnect(): destroys / closes and clears the cached handle of the configured
\* method.  net.Socket.destroy() may be called on any socket; dgram.Socket.close()
\* throws on a socket that is not running any more, and the handle then stays.
DisconnectEffect(opts, tpc, udp, socks) ==
    IF opts.method = "TCP" /\ tpc # NoSocket
    THEN [tpcSocket |-> NoSocket, udpSocket |-> udp, throws |-> FALSE,
          sockets |-> [socks EXCEPT ![tpc] = IF @ \in {"connecting", "open"} THEN "closing" ELSE @]]
    ELSE IF opts.method = "UDP" /\ udp # NoSocket
    THEN IF socks[udp] = "open"
         THEN [tpcSocket |-> tpc, udpSocket |-> NoSocket, throws |-> FALSE,
               sockets |-> [socks EXCEPT ![udp] = "closing"]]
         ELSE [tpcSocket |-> tpc, udpSocket |-> udp, throws |-> TRUE, sockets |-> socks]
    ELSE [tpcSocket |-> tpc, udpSocket |-> udp, throws |-> FALSE, sockets |-> socks]

\* disconnect() followed by the 'close' event of a UDP socket.  dgram's close()
\* emits 'close' with process.nextTick, so socketClose() runs as soon as the
\* calling code returns, before any other callback; net's destroy() emits
\* 'close' from the event loop, which is the later SocketCloseEvent.
DisconnectAndCloseTick(opts, tpc, udp, socks) ==
    LET d == DisconnectEffect(opts, tpc, udp, socks)
        c == SocketCloseEffect(d.tpcSocket, d.udpSocket)
        closing == {h \in SocketIds : d.sockets[h] = "closing"}
    IN  IF opts.method = "UDP" /\ closing # {}
        THEN [tpcSocket |-> c.tpcSocket, udpSocket |-> c.udpSocket, throws |-> d.throws,
              sockets |-> [h \in SocketIds |-> IF h \in closing THEN "closed" ELSE d.sockets[h]]]
        ELSE d

\* connectTCP() / connectUDP(): a socket is created when no handle is cached
NeedsNewSocket(opts, tpc, udp) ==
    IF opts.method = "TCP" THEN tpc = NoSocket ELSE udp = NoSocket

\* the handle connectTCP() / connectUDP() return without creating one
CachedSocket(opts, tpc, udp) == IF opts.method = "TCP" THEN tpc ELSE udp

\* an emit that throws although somebody listens
EmitThrowsAlways(n) == TRUE

\* this.emit('error', err): EventEmitter throws the error when nobody listens
EmitThrows(n) == n = 0

\* one socket.write / socket.send call
Transmit(w, h, method, buf) == Append(w, [socket |-> h, data |-> Payload(method, buf)])

\* ------------------------------------------------------------- the actions
\* client.on('error', listener)
Subscribe ==
    /\ ~crashed
    /\ listeners = 0
    /\ listeners' = 1
    /\ lastOp' = "subscribe"
    /\ UNCHANGED <<options, udpSocket, tpcSocket, pending, running, immediates, sockets,
                   suspended, wire, inflight, emitted, crashed, accepted, now, errorMark>>

\* send(severity, message, options): a validation error is thrown to the caller
SendThrows(severity, message, sendOptions) ==
    /\ ~crashed
    /\ SeverityRejected(severity) \/ LengthRejected(options, message)
    /\ lastOp' = IF SeverityRejected(severity) THEN "throwSeverity" ELSE "throwLength"
    /\ UNCHANGED <<options, listeners, udpSocket, tpcSocket, pending, running, immediates,
                   sockets, suspended, wire, inflight, emitted, crashed, accepted, now,
                   errorMark>>

\* send(severity, message, options): the frame is built and queued
Send(severity, message, sendOptions) ==
    /\ ~crashed
    /\ ~SeverityRejected(severity)
    /\ ~LengthRejected(options, message)
    /\ LET buf == Frame(options, severity, message, sendOptions, now)
           queue == QueueAfterPush(pending, buf)
           loop == StartEffect(queue, running, immediates)
       IN  /\ pending' = queue
           /\ running' = loop.running
           /\ immediates' = loop.immediates
           /\ accepted' = Append(accepted, buf)
    /\ now' = now + 1
    /\ lastOp' = "send"
    /\ UNCHANGED <<options, listeners, udpSocket, tpcSocket, sockets, suspended, wire,
                   inflight, emitted, crashed, errorMark>>

\* sendNextMessage() run by setImmediate.  With an empty queue it only stops the
\* loop; else shift, continue(), and the handle being cached, write / send at once
SendNextMessageCached ==
    /\ ~crashed
    /\ immediates > 0
    /\ IF Len(pending) = 0
       THEN LET loop == StopEffect(running, immediates - 1)
            IN  /\ running' = loop.running
                /\ immediates' = loop.immediates
                /\ lastOp' = "spurious"
                /\ UNCHANGED <<pending, wire, inflight>>
       ELSE /\ ~NeedsNewSocket(options, tpcSocket, udpSocket)
            /\ LET buf == Head(pending)
                   queue == QueueAfterShift(pending)
                   loop == ContinueEffect(queue, running, immediates - 1)
               IN  /\ pending' = queue
                   /\ running' = loop.running
                   /\ immediates' = loop.immediates
                   /\ wire' = Transmit(wire, CachedSocket(options, tpcSocket, udpSocket),
                                       options.method, buf)
            /\ inflight' = inflight + 1
            /\ lastOp' = "drain"
    /\ UNCHANGED <<options, listeners, udpSocket, tpcSocket, sockets, suspended, emitted,
                   crashed, accepted, now, errorMark>>

\* sendNextMessage(): shift, continue(), no handle cached: connectTCP() opens a
\* socket and the step waits for its 'connect'; connectUDP() creates, caches and
\* returns a socket and the step sends on it
SendNextMessageConnect ==
    /\ ~crashed
    /\ immediates > 0
    /\ Len(pending) > 0
    /\ NeedsNewSocket(options, tpcSocket, udpSocket)
    /\ LET buf == Head(pending)
           queue == QueueAfterShift(pending)
           loop == ContinueEffect(queue, running, immediates - 1)
           h == NewSocket
       IN  /\ pending' = queue
           /\ running' = loop.running
           /\ immediates' = loop.immediates
           /\ IF options.method = "TCP"
              THEN /\ sockets' = [sockets EXCEPT ![h] = "connecting"]
                   /\ suspended' = [suspended EXCEPT ![h] = <<buf>>]
                   /\ UNCHANGED <<udpSocket, wire, inflight>>
              ELSE /\ sockets' = [sockets EXCEPT ![h] = "open"]
                   /\ udpSocket' = h
                   /\ wire' = Transmit(wire, h, options.method, buf)
                   /\ inflight' = inflight + 1
                   /\ UNCHANGED suspended
    /\ lastOp' = "drainConnect"
    /\ UNCHANGED <<options, listeners, tpcSocket, emitted, crashed, accepted, now, errorMark>>

\* sendNextMessage(): shift, continue(), then net.connect / dgram.createSocket
\* throws: the catch block calls handleSendResult(err).  When emit throws there,
\* the async function's promise is rejected with nobody handling it, which ends
\* the process or only warns, depending on the Node version.
SendNextMessageFails(rejectionKills) ==
    /\ ~crashed
    /\ immediates > 0
    /\ Len(pending) > 0
    /\ NeedsNewSocket(options, tpcSocket, udpSocket)
    /\ LET queue == QueueAfterShift(pending)
           loop == ContinueEffect(queue, running, immediates - 1)
       IN  /\ pending' = queue
           /\ running' = loop.running
           /\ immediates' = loop.immediates
    /\ IF EmitThrows(listeners)
       THEN crashed' = rejectionKills /\ UNCHANGED emitted
       ELSE emitted < MaxErrors /\ emitted' = emitted + 1 /\ UNCHANGED crashed
    /\ lastOp' = "drainFail"
    /\ UNCHANGED <<options, listeners, udpSocket, tpcSocket, sockets, suspended, wire,
                   inflight, accepted, now, errorMark>>

\* 'connect' of a TCP socket: the promise of connectTCP() resolves, the waiting
\* drain step caches the socket and writes its frame
ConnectEvent(h) ==
    /\ ~crashed
    /\ options.method = "TCP"
    /\ sockets[h] = "connecting"
    /\ sockets' = [sockets EXCEPT ![h] = "open"]
    /\ tpcSocket' = h
    /\ wire' = Transmit(wire, h, options.method, suspended[h][1])
    /\ suspended' = [suspended EXCEPT ![h] = <<>>]
    /\ inflight' = inflight + 1
    /\ lastOp' = "connect"
    /\ UNCHANGED <<options, listeners, udpSocket, pending, running, immediates, emitted,
                   crashed, accepted, now, errorMark>>

\* 'error' of a socket -> socketError(err): emit, then disconnect().  A TCP socket
\* that reports an error is destroyed by Node, a UDP socket stays as it is.  An
\* exception of emit or of disconnect() escapes the event handler.
SocketError(h) ==
    /\ ~crashed
    /\ Live(h)
    /\ LET socks == IF options.method = "TCP" THEN [sockets EXCEPT ![h] = "closing"] ELSE sockets
           d == DisconnectAndCloseTick(options, tpcSocket, udpSocket, socks)
       IN  IF EmitThrows(listeners)
           THEN /\ crashed' = TRUE
                /\ sockets' = socks
                /\ UNCHANGED <<tpcSocket, udpSocket, emitted>>
           ELSE /\ emitted < MaxErrors
                /\ emitted' = emitted + 1
                /\ sockets' = d.sockets
                /\ tpcSocket' = d.tpcSocket
                /\ udpSocket' = d.udpSocket
                /\ crashed' = d.throws
    /\ lastOp' = "socketError"
    /\ UNCHANGED <<options, listeners, pending, running, immediates, suspended, wire,
                   inflight, accepted, now>>

SocketErrorEvent(h) == SocketError(h) /\ UNCHANGED errorMark

\* the same event, with the history of the error kept: the time, the sockets
\* created so far, the socket that failed and the transmissions made so far
SocketErrorEventMarked(h) ==
    /\ SocketError(h)
    /\ errorMark' = IF crashed' THEN errorMark
                    ELSE [now |-> now, created |-> Created, socket |-> h, sent |-> Len(wire)]

\* 'close' of a socket -> socketClose(): after destroy() / close() / an error, or
\* when the peer ends an open TCP connection
SocketCloseEvent(h) ==
    /\ ~crashed
    /\ sockets[h] = "closing" \/ (options.method = "TCP" /\ sockets[h] = "open")
    /\ sockets' = [sockets EXCEPT ![h] = "closed"]
    /\ LET c == SocketCloseEffect(tpcSocket, udpSocket)
       IN  /\ tpcSocket' = c.tpcSocket
           /\ udpSocket' = c.udpSocket
    /\ lastOp' = "socketClose"
    /\ UNCHANGED <<options, listeners, pending, running, immediates, suspended, wire,
                   inflight, emitted, crashed, accepted, now, errorMark>>

\* disconnect() called by the user; an exception goes to the caller
Disconnect ==
    /\ ~crashed
    /\ LET d == DisconnectAndCloseTick(options, tpcSocket, udpSocket, sockets)
       IN  /\ sockets' = d.sockets
           /\ tpcSocket' = d.tpcSocket
           /\ udpSocket' = d.udpSocket
           /\ lastOp' = IF d.throws THEN "disconnectThrow" ELSE "disconnect"
    /\ UNCHANGED <<options, listeners, pending, running, immediates, suspended, wire,
                   inflight, emitted, crashed, accepted, now, errorMark>>

\* the completion callback of a write / send: handleSendResult(err, bytes)
HandleSendResult(err) ==
    /\ ~crashed
    /\ inflight > 0
    /\ inflight' = inflight - 1
    /\ IF err
       THEN IF EmitThrows(listeners)
            THEN crashed' = TRUE /\ UNCHANGED emitted
            ELSE emitted < MaxErrors /\ emitted' = emitted + 1 /\ UNCHANGED crashed
       ELSE UNCHANGED <<emitted, crashed>>
    /\ lastOp' = IF err THEN "sendFailed" ELSE "sent"
    /\ UNCHANGED <<options, listeners, udpSocket, tpcSocket, pending, running, immediates,
                   sockets, suspended, wire, accepted, now, errorMark>>

\* ------------------------------------------------------------- the inputs
Severities == {-1, 6, 8}
Messages == { [ascii |-> 0, wide |-> 0], [ascii |-> 1, wide |-> 0] }
SendOptions == { [timestamp |-> <<>>, msgid |-> <<>>] }

\* send() with the inputs of Spec and SpecMarked, at most limit times
BoundedSend(limit) ==
    /\ Len(accepted) < limit
    /\ \E severity \in Severities, message \in Messages, sendOptions \in SendOptions :
           Send(severity, message, sendOptions)

\* every step but send() and the 'error' event
Steps ==
    \/ Subscribe
    \/ \E severity \in Severities, message \in Messages, sendOptions \in SendOptions :
           SendThrows(severity, message, sendOptions)
    \/ SendNextMessageCached
    \/ SendNextMessageConnect
    \/ \E rejectionKills \in BOOLEAN : SendNextMessageFails(rejectionKills)
    \/ \E h \in SocketIds : ConnectEvent(h)
    \/ \E h \in SocketIds : SocketCloseEvent(h)
    \/ Disconnect
    \/ \E err \in BOOLEAN : HandleSendResult(err)

Next ==
    \/ Steps
    \/ BoundedSend(MaxSends)
    \/ \E h \in SocketIds : SocketErrorEvent(h)

Spec == Init /\ [][Next]_vars

\* the client with the history of its last error kept
NextMarked ==
    \/ Steps
    \/ BoundedSend(MaxMarkedSends)
    \/ \E h \in SocketIds : SocketErrorEventMarked(h)

SpecMarked == Init /\ [][NextMarked]_vars

\* send() on a wider range of messages: empty, short, 1024 one-byte characters,
\* 513 two-byte characters (1026 bytes), 1025 characters
FormatSeverities == {-1, 0, 7, 8}
FormatMessages == { [ascii |-> 0, wide |-> 0], [ascii |-> 1, wide |-> 0],
                    [ascii |-> 1024, wide |-> 0], [ascii |-> 0, wide |-> 513],
                    [ascii |-> 1, wide |-> 1024] }

\* send() with the inputs of SpecFormat, at most limit times
BoundedFormatSend(limit) ==
    /\ Len(accepted) < limit
    /\ \E severity \in FormatSeverities, message \in FormatMessages, sendOptions \in SendOptions :
           Send(severity, message, sendOptions)

NextFormat ==
    \/ \E severity \in FormatSeverities, message \in FormatMessages, sendOptions \in SendOptions :
           SendThrows(severity, message, sendOptions)
    \/ BoundedFormatSend(MaxFormatSends)
    \/ SendNextMessageCached
    \/ SendNextMessageConnect
    \/ \E h \in SocketIds : ConnectEvent(h)

SpecFormat == Init /\ [][NextFormat]_vars

\* a scheduled sendNextMessage callback runs
DrainStep ==
    \/ SendNextMessageCached
    \/ SendNextMessageConnect
    \/ \E rejectionKills \in BOOLEAN : SendNextMessageFails(rejectionKills)

\* the event loop runs every callback that setImmediate has scheduled
SpecFair == Init /\ [][Next]_vars /\ WF_vars(DrainStep)

\* send() over every facility and severity
Facilities == 0..23
HeaderSeverities == -1..8
HeaderMessages == { [ascii |-> 1, wide |-> 0] }

InitHeader ==
    /\ options \in {[defaultRSyslogOptions EXCEPT !.method = m, !.facility = f] :
                       m \in Methods, f \in Facilities}
    /\ listeners = 0
    /\ udpSocket = NoSocket
    /\ tpcSocket = NoSocket
    /\ pending = <<>>
    /\ running = FALSE
    /\ immediates = 0
    /\ sockets = [h \in SocketIds |-> "unused"]
    /\ suspended = [h \in SocketIds |-> <<>>]
    /\ wire = <<>>
    /\ inflight = 0
    /\ emitted = 0
    /\ crashed = FALSE
    /\ accepted = <<>>
    /\ now = 1
    /\ errorMark = [now |-> 0, created |-> 0, socket |-> NoSocket, sent |-> 0]
    /\ lastOp = "constructor"

\* send() with the inputs of SpecHeader, at most limit times
BoundedHeaderSend(limit) ==
    /\ Len(accepted) < limit
    /\ \E severity \in HeaderSeverities, message \in HeaderMessages,
          sendOptions \in SendOptions : Send(severity, message, sendOptions)

NextHeader ==
    \/ \E severity \in HeaderSeverities, message \in HeaderMessages,
          sendOptions \in SendOptions : SendThrows(severity, message, sendOptions)
    \/ BoundedHeaderSend(MaxHeaderSends)
    \/ SendNextMessageConnect
    \/ \E h \in SocketIds : ConnectEvent(h)

SpecHeader == InitHeader /\ [][NextHeader]_vars

\* send() with and without the timestamp option
TimestampSeverities == {-1, 0, 3, 7}
TimestampMessages == { [ascii |-> 1, wide |-> 0], [ascii |-> 2, wide |-> 0] }
TimestampSendOptions == { [timestamp |-> t, msgid |-> <<>>] : t \in {<<>>, <<0>>, <<5>>} }

\* send() with the inputs of SpecTimestamp, at most limit times
BoundedTimestampSend(limit) ==
    /\ Len(accepted) < limit
    /\ \E severity \in TimestampSeverities, message \in TimestampMessages,
          sendOptions \in TimestampSendOptions : Send(severity, message, sendOptions)

NextTimestamp ==
    \/ \E severity \in TimestampSeverities, message \in TimestampMessages,
          sendOptions \in TimestampSendOptions : SendThrows(severity, message, sendOptions)
    \/ BoundedTimestampSend(MaxTimestampSends)
    \/ SendNextMessageConnect
    \/ \E h \in SocketIds : ConnectEvent(h)

SpecTimestamp == Init /\ [][NextTimestamp]_vars

\* ================================================================ claims
\* position of a frame in the sequence of accepted frames (the clock makes the
\* frames of two send() calls differ)
Position(buf) == CHOOSE k \in 1..Len(accepted) : accepted[k] = buf

DrainOps == {"drain", "drainConnect", "drainFail"}
FailureOps == {"socketError", "sendFailed", "drainFail"}
DisconnectOps == {"disconnect", "disconnectThrow"}

\* C1: the write / send calls are made in the order of the send() calls that
\* queued their frames, for TCP and for UDP.
C1_FifoInitiation ==
    \A i, j \in 1..Len(wire) :
        i < j => Position(wire[i].data.buf) < Position(wire[j].data.buf)

\* C2: at most one socket created by the client is connecting or open.
C2_OneLiveHandle == Cardinality({h \in SocketIds : Live(h)}) <= 1

C4_FreshHandleAfterError ==
    errorMark.socket # NoSocket =>
        /\ tpcSocket # errorMark.socket
        /\ udpSocket # errorMark.socket
        /\ \A i \in 1..Len(wire) :
              /\ i > errorMark.sent => wire[i].socket # errorMark.socket
              /\ wire[i].data.buf.header.timeStr.ms >= errorMark.now =>
                     wire[i].socket > errorMark.created

C6_BadSeverityThrows ==
    [][ \A severity \in Severities \ (SeverityMin..SeverityMax), message \in Messages,
           sendOptions \in SendOptions :
            (Send(severity, message, sendOptions) \/ SendThrows(severity, message, sendOptions)) =>
                /\ lastOp' = "throwSeverity"
                /\ UNCHANGED <<pending, running, immediates, sockets, suspended, udpSocket,
                               tpcSocket, wire, inflight, accepted>>
      ]_vars

C6_Witness ==
    /\ lastOp = "throwSeverity"
    /\ Len(pending) > 0
    /\ immediates = 1

\* C7: with UDP a send() call whose message is longer than 1024 bytes in UTF-8
\* queues nothing, whatever its number of characters, and with TCP a send() call
\* is never refused for a message that is not empty.
C7_ByteLengthLimit ==
    [][ \A severity \in FormatSeverities \cap (SeverityMin..SeverityMax),
           message \in FormatMessages, sendOptions \in SendOptions :
            /\ (options.method = "UDP" /\ Utf8Length(message) > MaxUdpLength) =>
                   ~Send(severity, message, sendOptions)
            /\ (options.method = "TCP" /\ Utf8Length(message) > 0) =>
                   ~SendThrows(severity, message, sendOptions)
      ]_vars

\* C8: a valid send() appends exactly its frame to the tail of the queue and
\* leaves the loop running with one drain step scheduled; it creates no socket,
\* writes nothing and changes no cached handle.
C8_SendOnlyQueues ==
    [][ lastOp' = "send" =>
            /\ Len(accepted') = Len(accepted) + 1
            /\ pending' = Append(pending, accepted'[Len(accepted')])
            /\ running'
            /\ immediates' = 1
            /\ UNCHANGED <<sockets, suspended, udpSocket, tpcSocket, wire, inflight,
                           emitted, crashed>>
      ]_vars

C8_Witness ==
    /\ lastOp = "send"
    /\ Len(pending) = 2
    /\ Len(wire) = 0

\* C9: disconnect() with no handle cached changes nothing and throws nothing, and
\* a disconnect() that follows a disconnect() changes nothing and throws nothing.
C9_DisconnectIdempotent ==
    [][ (/\ lastOp' \in DisconnectOps
         /\ \/ CachedSocket(options, tpcSocket, udpSocket) = NoSocket
            \/ lastOp = "disconnect") =>
            /\ lastOp' = "disconnect"
            /\ UNCHANGED <<options, listeners, udpSocket, tpcSocket, pending, running,
                           immediates, sockets, suspended, wire, inflight, emitted,
                           crashed, accepted, now>>
      ]_vars

C9_Witness ==
    /\ lastOp = "disconnect"
    /\ Created = 0
    /\ Len(pending) > 0

\* C10: every write / send call hands over one accepted frame that has left the
\* queue, followed by one newline with TCP and by nothing with UDP, and no frame
\* is handed over twice.
C10_PayloadFraming ==
    /\ \A i \in 1..Len(wire) :
          /\ \E k \in 1..(Len(accepted) - Len(pending)) : wire[i].data.buf = accepted[k]
          /\ wire[i].data.tail = IF options.method = "TCP" THEN <<NEWLINE>> ELSE <<>>
    /\ \A i, j \in 1..Len(wire) : i # j => wire[i].data.buf # wire[j].data.buf
    /\ Len(wire) + Cardinality({h \in SocketIds : suspended[h] # <<>>})
           <= Len(accepted) - Len(pending)

C10_Witness ==
    /\ options.method = "TCP"
    /\ Len(wire) >= 2

\* C11: for every facility in 0..23 and severity in 0..7 the priority of the
\* frame send() builds is facility * 8 + severity, a number in 0..191; facility
\* 16 with severity 3 gives 131.
C11_Priority ==
    [][ \A severity \in SeverityMin..SeverityMax, message \in HeaderMessages,
           sendOptions \in SendOptions :
            Send(severity, message, sendOptions) =>
                LET priority == accepted'[Len(accepted')].header.priority
                IN  /\ priority = options.facility * 8 + severity
                    /\ priority \in 0..191
                    /\ (options.facility = 16 /\ severity = 3) => priority = 131
      ]_vars

C11_Witness ==
    /\ options.facility = 16
    /\ lastOp = "send"
    /\ accepted[Len(accepted)].header.priority = 131

\* C12: the timestamp of the frame is the timestamp option whenever one is
\* given, 0 included, and the current time only when none is given.
C12_ExplicitTimestamp ==
    [][ \A severity \in SeverityMin..SeverityMax, message \in TimestampMessages,
           sendOptions \in TimestampSendOptions :
            Send(severity, message, sendOptions) =>
                LET ms == accepted'[Len(accepted')].header.timeStr.ms
                IN  IF sendOptions.timestamp # <<>>
                    THEN ms = sendOptions.timestamp[1]
                    ELSE ms = now
      ]_vars

\* C13: at most one scheduled sendNextMessage callback is outstanding in every
\* reachable state, whatever the interleaving of send(), drain steps,
\* disconnect() and socket events; a drain step only ever starts from that one
\* scheduled callback, never from inside another drain step.
C13_OneDrainStep ==
    [][ /\ immediates' <= 1
        /\ lastOp' \in DrainOps => immediates = 1
      ]_vars

C13_Witness ==
    /\ lastOp = "send"
    /\ Len(pending) = 2
    /\ running
    /\ immediates = 1

\* the k-th frame that send() accepted has left the pending queue
Removed(k) == Len(accepted) - Len(pending) >= k

NoFrameTransmittedTwice ==
    \A i, j \in DOMAIN wire : i # j => wire[i].data.buf # wire[j].data.buf

C15_SuspendedStepResumes ==
    \A h \in SocketIds : sockets[h] = "closed" => suspended[h] = <<>>

\* C16: disconnect() called while a socket is connecting or open tears that
\* socket down: when disconnect() has returned, no socket of the client is
\* connecting or open any more.
C16_DisconnectTearsDown ==
    [][ lastOp' \in DisconnectOps =>
            \A h \in SocketIds : Live(h) => sockets'[h] \notin {"connecting", "open"}
      ]_vars

\* the pending queue is the tail of the accepted frames, in the order of the sends
PendingIsSuffix ==
    \E k \in 0..Len(accepted) : pending = SubSeq(accepted, k + 1, Len(accepted))

\* no frame is at two places among the queue, the waiting drain steps and the wire
HandedOnce ==
    /\ NoFrameTransmittedTwice
    /\ \A i \in DOMAIN pending, j \in DOMAIN wire : pending[i] # wire[j].data.buf
    /\ \A h \in SocketIds : suspended[h] # <<>> =>
           /\ \A i \in DOMAIN pending : pending[i] # suspended[h][1]
           /\ \A j \in DOMAIN wire : wire[j].data.buf # suspended[h][1]
           /\ \A g \in SocketIds \ {h} : suspended[g] # suspended[h]

\* C17: the pending queue always is a contiguous suffix of the accepted frames in
\* the order of the sends; a drain step removes the front frame and nothing
\* else, no other operation removes or reorders frames, and no frame reaches the
\* transport twice.
C17_QueueIsSuffix ==
    [][ /\ PendingIsSuffix'
        /\ lastOp' \in DrainOps => (Len(pending) > 0 /\ pending' = Tail(pending))
        /\ lastOp' \notin (DrainOps \cup {"send"}) => pending' = pending
        /\ HandedOnce'
      ]_vars

C17_Witness ==
    /\ lastOp \in DrainOps
    /\ Len(accepted) = 2
    /\ pending = <<accepted[2]>>
    /\ Len(wire) = 1
    /\ wire[1].data.buf = accepted[1]

\* C18: a 'close' event of a socket clears the cached handle, emits no 'error',
\* leaves the pending queue, the running flag and the scheduled drain step as
\* they are and creates no socket; sockets are created by drain steps only, and
\* the drain step after the close has to create one.
C18_CloseOnlyClearsHandle ==
    [][ /\ lastOp' = "socketClose" =>
               /\ CachedSocket(options, tpcSocket', udpSocket') = NoSocket
               /\ NeedsNewSocket(options, tpcSocket', udpSocket')
               /\ emitted' = emitted
               /\ crashed' = crashed
               /\ pending' = pending
               /\ running' = running
               /\ immediates' = immediates
               /\ wire' = wire
               /\ Created' = Created
        /\ Created' # Created => (lastOp' = "drainConnect" /\ Created' = Created + 1)
      ]_vars

C18_Witness ==
    /\ lastOp = "socketClose"
    /\ options.method = "TCP"
    /\ emitted = 0
    /\ Len(wire) = 1
    /\ Len(pending) = 1
    /\ running
    /\ tpcSocket = NoSocket

\* C19: between callbacks, running holds exactly when one drain step is
\* scheduled, and it holds whenever frames are pending; a scheduled drain step
\* always finds a frame, so the 'spurious sendNextMessage' branch is never taken.
C19_RunningIffScheduled ==
    /\ immediates \in {0, 1}
    /\ running <=> immediates = 1
    /\ Len(pending) > 0 => running
    /\ immediates = 1 => Len(pending) > 0
    /\ lastOp # "spurious"

C19_Witness ==
    /\ lastOp = "drainConnect"
    /\ Len(pending) = 1
    /\ running
    /\ immediates = 1
    /\ \E h \in SocketIds : suspended[h] # <<>>

\* C20: a 'close' or 'error' event of a socket that is not the cached handle
\* neither clears the cached handle nor tears its socket down.
C20_LateEventKeepsCachedHandle ==
    [][ \A h \in SocketIds :
            LET cached == CachedSocket(options, tpcSocket, udpSocket)
            IN  ( /\ SocketCloseEvent(h) \/ SocketErrorEvent(h)
                  /\ cached # NoSocket
                  /\ cached # h )
                => /\ CachedSocket(options, tpcSocket', udpSocket') = cached
                   /\ sockets'[cached] = sockets[cached]
      ]_vars

====
